---- MODULE Spec2Model ----
(***************************************************************************)
(* FullyConnectedModel (lib/models/fully_connected.py): construction from  *)
(* the per-level configuration lists, and the infer / generate / re_init / *)
(* parameter-partition control flow over the stack of latent levels.       *)
(*                                                                         *)
(* Tensors are symbolic: a tensor is a sequence of feature columns (the    *)
(* dim=1 axis that torch.cat joins); a column is <<tag, int, payload>>     *)
(* where payload is the sequence of columns it was computed from.          *)
(* Python exceptions are the `exc` field of an operation's result.         *)
(***************************************************************************)
EXTENDS Integers, Sequences, FiniteSets, TLC

VARIABLES model_config, constructed,
          latent_levels, inference_procedure, output_dist, twin, last, nops

vars == <<model_config, constructed,
          latent_levels, inference_procedure, output_dist, twin, last, nops>>

(* ---------------------------- bounds ----------------------------------- *)
MaxL == 2          \* largest number of hierarchy levels
MaxOps == 3        \* calls made on one model
ObsWidth == 1      \* feature width of an observation
MaxSamples == 2    \* largest n_samples passed to generate

(* ------------------------ symbolic tensors ----------------------------- *)
Col(tag, k, payload) == <<tag, k, payload>>

None == <<Col("None", 0, <<>>)>>

NoExc == "none"

Ok(v) == [exc |-> NoExc, val |-> v]

Raise(e) == [exc |-> e, val |-> None]

RECURSIVE SeqsUpTo(_, _)
SeqsUpTo(S, n) ==
  IF n = 0 THEN {<<>>}
  ELSE LET shorter == SeqsUpTo(S, n - 1)
       IN shorter \cup {Append(s, x) : s \in {t \in shorter : Len(t) = n - 1}, x \in S}

(* ======================= construction ================================== *)
\* Python list indexing with a non-negative 0-based index
GetItem(list, k) ==
  IF k >= 0 /\ k < Len(list) THEN Ok(list[k + 1]) ELSE [exc |-> "IndexError", val |-> 0]

\* the body of the for loop of _construct, for one level_ind
LevelConfig(cfg, level_ind) ==
  LET ui == GetItem(cfg.n_units_inf, level_ind)
      ug == GetItem(cfg.n_units_gen, level_ind + 1)
      nl == GetItem(cfg.n_latent, level_ind)
      na == GetItem(cfg.n_latent, level_ind + 1)
  IN IF \E r \in {ui, ug, nl, na} : r.exc # NoExc
     THEN [exc |-> "IndexError", val |-> <<>>]
     ELSE Ok([latent_config |-> [n_in |-> <<ui.val, ug.val>>,
                                   n_variables |-> nl.val,
                                   inference_procedure |-> cfg.inference_input_form],
              inference_procedure |-> cfg.inference_input_form,
              inference_config |-> [n_in |-> 0, n_units |-> ui.val],
              generative_config |-> [n_in |-> na.val, n_units |-> ug.val]])

RECURSIVE ConstructLoop(_, _, _)
ConstructLoop(cfg, level_ind, levels) ==
  IF level_ind >= Len(cfg.n_latent) THEN [exc |-> NoExc, latent_levels |-> levels]
  ELSE LET lc == LevelConfig(cfg, level_ind)
       IN IF lc.exc # NoExc THEN [exc |-> lc.exc, latent_levels |-> levels]
          ELSE ConstructLoop(cfg, level_ind + 1, Append(levels, lc.val))

_construct(cfg) == ConstructLoop(cfg, 0, <<>>)

LatentSizes == {64, 32}
UnitSizes == {512, 1}
ModeNames == {"observation", "gradient", "error"}

ModeLists == {s \in SeqsUpTo(ModeNames, 3) : \A i, j \in DOMAIN s : i # j => s[i] # s[j]}

Configs ==
  [n_latent : SeqsUpTo(LatentSizes, MaxL),
   n_layers_inf : SeqsUpTo({2}, MaxL + 1),
   n_layers_gen : SeqsUpTo({2}, MaxL + 2),
   n_units_inf : SeqsUpTo({512}, MaxL + 1),
   n_units_gen : SeqsUpTo(UnitSizes, MaxL + 2),
   inference_input_form : {<<"observation">>}]

NotConstructed == [state |-> "new", exc |-> NoExc, latent_levels |-> <<>>]

(* ======================= collaborators ================================= *)
\* `import torch.nn as nn` binds the name nn only: the module never binds torch
TorchImported == FALSE

Range(s) == {s[i] : i \in DOMAIN s}

RECURSIVE Flatten(_)
Flatten(tensors) ==
  IF tensors = <<>> THEN <<>> ELSE Head(tensors) \o Flatten(Tail(tensors))

\* torch.cat(tensors, dim=1): evaluating the name torch comes first
torch_cat(tensors) ==
  IF ~TorchImported THEN Raise("NameError") ELSE Ok(Flatten(tensors))

torch_exp(t) ==
  IF ~TorchImported THEN Raise("NameError") ELSE Ok(<<Col("exp", 0, t)>>)

LayerNorm(t) == [c \in DOMAIN t |-> Col("ln", 0, <<t[c]>>)]

\* second dimension (the samples axis) of a decoding-shaped tensor
Shape1(t) == t[1][2]

InitLevel(i) == [post |-> Col("q0", i, <<>>), prior |-> Col("p0", i, <<>>)]

\* LatentLevel.infer(encoding) -> next encoding; updates the approximate posterior
level_infer(level, i, encoding) ==
  [level |-> [level EXCEPT !.post = Col("q", i, encoding)],
   ret |-> <<Col("enc", i, encoding)>>]

\* LatentLevel.generate(decoding, gen, n_samples) -> decoding; gen selects the prior
level_generate(level, i, decoding, gen, n_samples, draw) ==
  LET prior == Col("p", i, decoding)
      z == IF gen THEN Col("z", draw, <<prior>>) ELSE Col("z", draw, <<level.post>>)
  IN [level |-> [level EXCEPT !.prior = prior],
      ret |-> <<Col("dec", n_samples, <<Col("lvl", i, <<z>>)>>)>>]

\* latent.re_init(): back to the initial approximate posterior
latent_re_init(level, i) == [level EXCEPT !.post = InitLevel(i).post]

approx_posterior_gradients(level) ==
  <<<<Col("d_mean", 0, <<level.post>>)>>, <<Col("d_log_var", 0, <<level.post>>)>>>>

approx_posterior_parameters(level) ==
  <<<<Col("mean", 0, <<level.post>>)>>, <<Col("log_var", 0, <<level.post>>)>>>>

latent_error(level) == <<Col("err", 0, <<level.post, level.prior>>)>>

output_network(decoding) == <<Col("output_network", Shape1(decoding), decoding)>>

output_mean(decoding) == <<Col("output_mean", Shape1(decoding), decoding)>>

output_log_var(decoding) == <<Col("output_log_var", Shape1(decoding), decoding)>>

\* output_dist.sample(): a draw from the distribution's current parameters
dist_sample(dist, draw) == <<Col("sample", draw, dist.mean \o dist.log_var)>>

DistTypes == {"Normal", "Bernoulli", "Multinomial"}

InitDist(t) == [type |-> t, mean |-> None, log_var |-> None]

\* x.detach() raises AttributeError when the attribute was never set
detach(t) == IF t = None THEN Raise("AttributeError") ELSE Ok(t)

level_inference_parameters(i) == <<Col("inference", i, <<>>)>>

level_generative_parameters(i) == <<Col("generative", i, <<>>)>>

\* list(module.parameters()) against list(module.parameters): a bound method
\* is not iterable
ListParameters(name, called) ==
  IF called THEN Ok(<<Col(name, 0, <<>>)>>) ELSE Raise("TypeError")

Call(fn, level, arg, gen, n, ret) ==
  [fn |-> fn, level |-> level, arg |-> arg, gen |-> gen, n |-> n, ret |-> ret]

(* ======================= FullyConnectedModel =========================== *)
Pixels == {0, 2}    \* pixel values 0.0 and 1.0 in units of one half

Observations == {[c \in 1..ObsWidth |-> Col("px", f[c], <<>>)] : f \in [1..ObsWidth -> Pixels]}

\* observation - 0.5
Centered(observation) ==
  [c \in DOMAIN observation |-> Col("px", observation[c][2] - 1, <<>>)]

_output_error(m, observation) ==
  LET output_mean_ == detach(m.output_dist.mean)
  IN IF output_mean_.exc # NoExc THEN output_mean_
     ELSE LET n_samples == Shape1(output_mean_.val)
              obs == <<Col("repeat", n_samples, observation)>>
          IN CASE m.output_dist.type = "Normal" ->
                    LET lv == detach(m.output_dist.log_var)
                        ex == IF lv.exc # NoExc THEN lv ELSE torch_exp(lv.val)
                    IN IF ex.exc # NoExc THEN ex
                       ELSE Ok(<<Col("mean_dim1", 0,
                                     <<Col("n_error", 0, obs \o output_mean_.val \o ex.val)>>)>>)
               [] m.output_dist.type = "Bernoulli" -> Raise("NotImplementedError")
               [] m.output_dist.type = "Multinomial" -> Raise("NotImplementedError")

GradientComponent(m) ==
  LET latent == m.latent_levels[1]
      g == approx_posterior_gradients(latent)
      grads == torch_cat([k \in DOMAIN g |-> LayerNorm(g[k])])
      p == approx_posterior_parameters(latent)
      params == torch_cat([k \in DOMAIN p |-> LayerNorm(p[k])])
  IN IF grads.exc # NoExc THEN grads
     ELSE IF params.exc # NoExc THEN params
     ELSE torch_cat(<<grads.val, params.val>>)

ErrorComponent(m, observation) ==
  LET latent == m.latent_levels[1]
      oe == _output_error(m, observation)
      errors == torch_cat(<<LayerNorm(oe.val), LayerNorm(latent_error(latent))>>)
      p == approx_posterior_parameters(latent)
      params == torch_cat([k \in DOMAIN p |-> LayerNorm(p[k])])
  IN IF oe.exc # NoExc THEN oe
     ELSE IF errors.exc # NoExc THEN errors
     ELSE IF params.exc # NoExc THEN params
     ELSE torch_cat(<<errors.val, params.val>>)

_get_encoding_form(m, procedure, observation) ==
  LET e1 == IF "observation" \in Range(procedure) THEN <<Centered(observation)>> ELSE <<>>
      gc == IF "gradient" \in Range(procedure) THEN GradientComponent(m) ELSE Ok(<<>>)
      e2 == IF "gradient" \in Range(procedure) THEN Append(e1, gc.val) ELSE e1
      ec == IF "error" \in Range(procedure) THEN ErrorComponent(m, observation) ELSE Ok(<<>>)
      e3 == IF "error" \in Range(procedure) THEN Append(e2, ec.val) ELSE e2
  IN IF gc.exc # NoExc THEN gc
     ELSE IF ec.exc # NoExc THEN ec
     ELSE IF Len(e3) = 1 THEN Ok(e3[1]) ELSE torch_cat(e3)

RECURSIVE InferLoop(_, _, _, _)
InferLoop(levels, pos, encoding, calls) ==
  IF pos > Len(levels) THEN [latent_levels |-> levels, calls |-> calls]
  ELSE LET r == level_infer(levels[pos], pos - 1, encoding)
       IN InferLoop([levels EXCEPT ![pos] = r.level], pos + 1, r.ret,
                    Append(calls, Call("infer", pos - 1, encoding, FALSE, 0, r.ret)))

infer(m, procedure, observation) ==
  LET encoding == _get_encoding_form(m, procedure, observation)
      loop == InferLoop(m.latent_levels, 1, encoding.val, <<>>)
  IN IF encoding.exc # NoExc
     THEN [latent_levels |-> m.latent_levels, output_dist |-> m.output_dist,
           exc |-> encoding.exc, ret |-> None, calls |-> <<>>]
     ELSE [latent_levels |-> loop.latent_levels, output_dist |-> m.output_dist,
           exc |-> NoExc, ret |-> None, calls |-> loop.calls]

\* variant: every level is seeded with None instead of the decoding from above
RECURSIVE GenerateLoop_unchained(_, _, _, _, _, _, _)
GenerateLoop_unchained(levels, pos, decoding, gen, n_samples, draw, calls) ==
  IF pos < 1 THEN [latent_levels |-> levels, decoding |-> decoding, calls |-> calls]
  ELSE LET r == level_generate(levels[pos], pos - 1, None, gen, n_samples, draw)
       IN GenerateLoop_unchained([levels EXCEPT ![pos] = r.level], pos - 1, r.ret, gen,
                                 n_samples, draw,
                                 Append(calls, Call("generate", pos - 1, None, gen, n_samples, r.ret)))

RECURSIVE GenerateLoop(_, _, _, _, _, _, _)
GenerateLoop(levels, pos, decoding, gen, n_samples, draw, calls) ==
  IF pos < 1 THEN [latent_levels |-> levels, decoding |-> decoding, calls |-> calls]
  ELSE LET r == level_generate(levels[pos], pos - 1, decoding, gen, n_samples, draw)
       IN GenerateLoop([levels EXCEPT ![pos] = r.level], pos - 1, r.ret, gen, n_samples, draw,
                       Append(calls, Call("generate", pos - 1, decoding, gen, n_samples, r.ret)))

\* variant: the levels are always asked for the approximate posterior
generate_posterior(m, gen, n_samples, draw) ==
  LET loop == GenerateLoop(m.latent_levels, Len(m.latent_levels), None, FALSE, n_samples, draw, <<>>)
      decoding == output_network(loop.decoding)
      mean == output_mean(decoding)
      dist == [m.output_dist EXCEPT
                 !.mean = mean,
                 !.log_var = IF m.output_dist.type = "Normal"
                             THEN output_log_var(decoding) ELSE @]
  IN [latent_levels |-> loop.latent_levels, output_dist |-> dist,
      exc |-> NoExc, ret |-> dist_sample(dist, draw),
      calls |-> Append(loop.calls,
                       Call("output_network", -1, loop.decoding, gen, n_samples, decoding))]

generate(m, gen, n_samples, draw) ==
  LET loop == GenerateLoop(m.latent_levels, Len(m.latent_levels), None, gen, n_samples, draw, <<>>)
      decoding == output_network(loop.decoding)
      mean == output_mean(decoding)
      dist == [m.output_dist EXCEPT
                 !.mean = mean,
                 !.log_var = IF m.output_dist.type = "Normal"
                             THEN output_log_var(decoding) ELSE @]
  IN [latent_levels |-> loop.latent_levels, output_dist |-> dist,
      exc |-> NoExc, ret |-> dist_sample(dist, draw),
      calls |-> Append(loop.calls,
                       Call("output_network", -1, loop.decoding, gen, n_samples, decoding))]

\* variant: the loop stops one level short of the top
RECURSIVE ReInitLoop_short(_, _, _)
ReInitLoop_short(levels, pos, calls) ==
  IF pos >= Len(levels) THEN [latent_levels |-> levels, calls |-> calls]
  ELSE ReInitLoop_short([levels EXCEPT ![pos] = latent_re_init(levels[pos], pos - 1)], pos + 1,
                        Append(calls, Call("re_init", pos - 1, None, FALSE, 0, None)))

RECURSIVE ReInitLoop(_, _, _)
ReInitLoop(levels, pos, calls) ==
  IF pos > Len(levels) THEN [latent_levels |-> levels, calls |-> calls]
  ELSE ReInitLoop([levels EXCEPT ![pos] = latent_re_init(levels[pos], pos - 1)], pos + 1,
                  Append(calls, Call("re_init", pos - 1, None, FALSE, 0, None)))

re_init(m, draw) ==
  LET g == generate(m, TRUE, 1, draw)
      loop == ReInitLoop(g.latent_levels, 1, g.calls)
  IN [latent_levels |-> loop.latent_levels, output_dist |-> g.output_dist,
      exc |-> NoExc, ret |-> None, calls |-> loop.calls]

RECURSIVE InferenceParamsLoop(_, _, _)
InferenceParamsLoop(levels, pos, params) ==
  IF pos > Len(levels) THEN params
  ELSE InferenceParamsLoop(levels, pos + 1, params \o level_inference_parameters(pos - 1))

inference_parameters(m) ==
  [latent_levels |-> m.latent_levels, output_dist |-> m.output_dist,
   exc |-> NoExc, ret |-> InferenceParamsLoop(m.latent_levels, 1, <<>>), calls |-> <<>>]

RECURSIVE GenerativeParamsLoop(_, _, _)
GenerativeParamsLoop(levels, pos, params) ==
  IF pos > Len(levels) THEN params
  ELSE GenerativeParamsLoop(levels, pos + 1, params \o level_generative_parameters(pos - 1))

generative_parameters(m) ==
  LET p1 == GenerativeParamsLoop(m.latent_levels, 1, <<>>)
      on == ListParameters("output_network", TRUE)
      om == ListParameters("output_mean", FALSE)
      ol == ListParameters("output_log_var", TRUE)
      r == IF on.exc # NoExc THEN on
           ELSE IF om.exc # NoExc THEN om
           ELSE IF m.output_dist.type = "Normal"
                THEN (IF ol.exc # NoExc THEN ol ELSE Ok(p1 \o on.val \o om.val \o ol.val))
                ELSE Ok(p1 \o on.val \o om.val)
  IN [latent_levels |-> m.latent_levels, output_dist |-> m.output_dist,
      exc |-> r.exc, ret |-> r.val, calls |-> <<>>]

(* ======================= state machine ================================= *)
Self == [latent_levels |-> latent_levels, output_dist |-> output_dist]

\* inferred: some earlier infer call on this model returned
NoCall == [op |-> "none", exc |-> NoExc, ret |-> None, calls |-> <<>>,
           observation |-> None, gen |-> FALSE, n_samples |-> 0, draw |-> 0,
           inferred |-> FALSE]

Draws == {0, 1}

IdleConfig ==
  [n_latent |-> <<>>, n_layers_inf |-> <<>>, n_layers_gen |-> <<>>,
   n_units_inf |-> <<>>, n_units_gen |-> <<>>, inference_input_form |-> <<>>]

\* a model whose latent_levels holds L >= 1 levels, before any infer or
\* generate call: the state _construct is written to leave (for L >= 1 it
\* raises instead, which SpecConstruct covers)
Init ==
  /\ model_config = IdleConfig
  /\ constructed = NotConstructed
  /\ \E L \in 1..MaxL : latent_levels = [i \in 1..L |-> InitLevel(i - 1)]
  /\ inference_procedure \in ModeLists
  /\ \E t \in DistTypes : output_dist = InitDist(t)
  /\ twin = [latent_levels |-> latent_levels, output_dist |-> output_dist,
             exc |-> NoExc, ret |-> None]
  /\ last = NoCall
  /\ nops = 0

\* the call applied to this model (r) and to its twin (t)
Apply(op, r, t, observation, gen, n_samples, draw) ==
  /\ nops < MaxOps
  /\ nops' = nops + 1
  /\ latent_levels' = r.latent_levels
  /\ output_dist' = r.output_dist
  /\ twin' = t
  /\ last' = [op |-> op, exc |-> r.exc, ret |-> r.ret, calls |-> r.calls,
              observation |-> observation, gen |-> gen, n_samples |-> n_samples,
              draw |-> draw,
              inferred |-> last.inferred \/ (op = "infer" /\ r.exc = NoExc)]
  /\ UNCHANGED <<model_config, constructed, inference_procedure>>

TwinResult(r) ==
  [latent_levels |-> r.latent_levels, output_dist |-> r.output_dist,
   exc |-> r.exc, ret |-> r.ret]

\* the twin never runs infer
Infer ==
  \E observation \in Observations :
    Apply("infer", infer(Self, inference_procedure, observation),
          [twin EXCEPT !.exc = NoExc, !.ret = None], observation, FALSE, 0, 0)

Generate ==
  \E gen \in BOOLEAN, n_samples \in 1..MaxSamples, draw \in Draws :
    Apply("generate", generate(Self, gen, n_samples, draw),
          TwinResult(generate(twin, gen, n_samples, draw)), None, gen, n_samples, draw)

ReInit ==
  \E draw \in Draws :
    Apply("re_init", re_init(Self, draw), TwinResult(re_init(twin, draw)),
          None, TRUE, 1, draw)

InferenceParameters ==
  Apply("inference_parameters", inference_parameters(Self),
        TwinResult(inference_parameters(twin)), None, FALSE, 0, 0)

GenerativeParameters ==
  Apply("generative_parameters", generative_parameters(Self),
        TwinResult(generative_parameters(twin)), None, FALSE, 0, 0)

OutputError ==
  \E observation \in Observations :
    LET r == _output_error(Self, observation)
        t == _output_error(twin, observation)
    IN Apply("_output_error",
             [latent_levels |-> latent_levels, output_dist |-> output_dist,
              exc |-> r.exc, ret |-> r.val, calls |-> <<>>],
             [twin EXCEPT !.exc = t.exc, !.ret = t.val], observation, FALSE, 0, 0)

GetEncodingForm ==
  \E observation \in Observations :
    LET r == _get_encoding_form(Self, inference_procedure, observation)
        t == _get_encoding_form(twin, inference_procedure, observation)
    IN Apply("_get_encoding_form",
             [latent_levels |-> latent_levels, output_dist |-> output_dist,
              exc |-> r.exc, ret |-> r.val, calls |-> <<>>],
             [twin EXCEPT !.exc = t.exc, !.ret = t.val], observation, FALSE, 0, 0)

Next ==
  \/ Infer
  \/ Generate
  \/ ReInit
  \/ InferenceParameters
  \/ GenerativeParameters
  \/ OutputError
  \/ GetEncodingForm

Spec == Init /\ [][Next]_vars

(* ---------------------- construction ----------------------------------- *)
InitConstruct ==
  /\ model_config \in Configs
  /\ constructed = NotConstructed
  /\ latent_levels = <<>>
  /\ inference_procedure = <<>>
  /\ output_dist = InitDist("Bernoulli")
  /\ twin = [latent_levels |-> <<>>, output_dist |-> InitDist("Bernoulli"),
             exc |-> NoExc, ret |-> None]
  /\ last = NoCall
  /\ nops = 0

\* FullyConnectedModel(model_config): an exception leaves no model object
Construct ==
  /\ constructed.state = "new"
  /\ LET r == _construct(model_config)
     IN /\ constructed' = [state |-> "done", exc |-> r.exc, latent_levels |-> r.latent_levels]
        /\ inference_procedure' = model_config.inference_input_form
  /\ UNCHANGED <<model_config, latent_levels, output_dist, twin, last, nops>>

NextConstruct == Construct

SpecConstruct == InitConstruct /\ [][NextConstruct]_vars

(* ======================= properties ==================================== *)
NLevels == Len(latent_levels)

Consistent(cfg) ==
  /\ Len(cfg.n_units_inf) = Len(cfg.n_latent)
  /\ Len(cfg.n_layers_inf) = Len(cfg.n_latent)
  /\ Len(cfg.n_units_gen) = Len(cfg.n_latent) + 1
  /\ Len(cfg.n_layers_gen) = Len(cfg.n_latent) + 1

\* C1: for a consistent configuration with L >= 1 levels, construction
\* completes with exactly L latent levels, level i built with generative
\* n_in = n_latent[i+1] and n_units = n_units_gen[i+1], the top level
\* included.
C1_ConstructionCompletes ==
  (constructed.state = "done" /\ Consistent(model_config) /\ Len(model_config.n_latent) >= 1)
  => /\ constructed.exc = NoExc
     /\ Len(constructed.latent_levels) = Len(model_config.n_latent)
     /\ \A i \in 1..Len(constructed.latent_levels) :
          /\ constructed.latent_levels[i].generative_config.n_units = model_config.n_units_gen[i + 1]
          /\ i < Len(model_config.n_latent) =>
               constructed.latent_levels[i].generative_config.n_in = model_config.n_latent[i + 1]

\* C2: construction fails whenever the per-level lists have inconsistent
\* lengths; no inconsistent configuration is accepted.
C2_InconsistentRejected ==
  (constructed.state = "done" /\ ~Consistent(model_config)) => constructed.exc # NoExc

\* C3: generate(gen, n_samples) calls each level's generate exactly once,
\* from the top level down to level 0, the top level with None, each lower
\* level with the decoding returned by the level above, every level with the
\* caller's gen and n_samples, and only the bottom decoding reaches the
\* output network.
C3_GenerateOrder ==
  last.op = "generate" =>
    /\ last.exc = NoExc
    /\ Len(last.calls) = NLevels + 1
    /\ \A k \in 1..NLevels :
         /\ last.calls[k].fn = "generate"
         /\ last.calls[k].level = NLevels - k
         /\ last.calls[k].gen = last.gen
         /\ last.calls[k].n = last.n_samples
         /\ last.calls[k].arg = IF k = 1 THEN None ELSE last.calls[k - 1].ret
    /\ last.calls[NLevels + 1].fn = "output_network"
    /\ last.calls[NLevels + 1].arg = last.calls[NLevels].ret

C3_Witness ==
  /\ last.op = "generate"
  /\ NLevels >= 2
  /\ last.n_samples = 2
  /\ last.calls[2].arg = last.calls[1].ret
  /\ last.calls[1].arg = None

\* C4: infer(observation) calls each level's infer exactly once, from level
\* 0 up to the top, level 0 with the encoding assembled from the
\* observation, each higher level with the encoding returned by the level
\* below, and every level's approximate posterior is updated on return.
C4_InferOrder ==
  (last.op = "infer" /\ inference_procedure # <<>>) =>
    /\ last.exc = NoExc
    /\ Len(last.calls) = NLevels
    /\ \A k \in 1..NLevels :
         /\ last.calls[k].fn = "infer"
         /\ last.calls[k].level = k - 1
         /\ last.calls[k].arg # None
         /\ k > 1 => last.calls[k].arg = last.calls[k - 1].ret
         /\ latent_levels[k].post = Col("q", k - 1, last.calls[k].arg)

\* C5: generate(gen=True) does not depend on earlier infer calls: the model
\* and its twin, which went through the same calls except infer, get the
\* same output-distribution parameters and return the same sample.
C5_PriorGenerationIgnoresInfer ==
  (last.op = "generate" /\ last.gen) =>
    /\ last.exc = twin.exc
    /\ last.ret = twin.ret
    /\ output_dist = twin.output_dist

C5_Witness ==
  /\ last.op = "generate"
  /\ last.gen
  /\ \A i \in 1..NLevels : latent_levels[i].post # twin.latent_levels[i].post
  /\ NLevels >= 2

AllParameters ==
  LET levels == UNION {Range(level_inference_parameters(i - 1))
                         \cup Range(level_generative_parameters(i - 1)) : i \in 1..NLevels}
      out == {Col("output_network", 0, <<>>), Col("output_mean", 0, <<>>)}
      lv == IF output_dist.type = "Normal" THEN {Col("output_log_var", 0, <<>>)} ELSE {}
  IN levels \cup out \cup lv

\* C6: inference_parameters() and generative_parameters() both return, for
\* every output family; the two collections are disjoint, hold no
\* duplicates, and together hold every trainable parameter.
C6_ParameterPartition ==
  /\ last.op = "inference_parameters" => last.exc = NoExc
  /\ last.op = "generative_parameters" =>
    LET inf == inference_parameters(Self)
        gn == generative_parameters(Self)
    IN /\ last.exc = NoExc
       /\ last.ret = gn.ret
       /\ inf.exc = NoExc
       /\ Range(inf.ret) \cap Range(gn.ret) = {}
       /\ Cardinality(Range(inf.ret)) = Len(inf.ret)
       /\ Cardinality(Range(gn.ret)) = Len(gn.ret)
       /\ Range(inf.ret) \cup Range(gn.ret) = AllParameters

\* C7: on a fresh model, for every non-empty inference_input_form,
\* infer(observation) followed by generate(gen=False) does not raise.
C7_InferThenGenerate ==
  (nops = 1 /\ last.op = "infer" /\ inference_procedure # <<>>) =>
    /\ last.exc = NoExc
    /\ \A n \in 1..MaxSamples, d \in Draws : generate(Self, FALSE, n, d).exc = NoExc

FreshModel ==
  [latent_levels |-> [i \in 1..NLevels |-> InitLevel(i - 1)],
   output_dist |-> InitDist(output_dist.type)]

\* C8: re_init() runs one generate pass with gen=True, finished before any
\* reset, then resets every level's latent exactly once; afterwards every
\* latent is in its initial state whatever calls came before, and a
\* following generate(gen=True) gives what a model that never ran infer gives.
C8_ReInit ==
  last.op = "re_init" =>
    /\ last.exc = NoExc
    /\ Len(last.calls) = 2 * NLevels + 1
    /\ \A k \in 1..NLevels :
         /\ last.calls[k].fn = "generate"
         /\ last.calls[k].level = NLevels - k
         /\ last.calls[k].gen
         /\ last.calls[NLevels + 1 + k].fn = "re_init"
         /\ last.calls[NLevels + 1 + k].level = k - 1
    /\ last.calls[NLevels + 1].fn = "output_network"
    /\ \A i \in 1..NLevels : latent_levels[i].post = InitLevel(i - 1).post
    /\ \A n \in 1..MaxSamples, d \in Draws :
         LET a == generate(Self, TRUE, n, d)
             b == generate(FreshModel, TRUE, n, d)
         IN a.ret = b.ret /\ a.output_dist = b.output_dist

C8_Witness ==
  /\ last.op = "re_init"
  /\ last.inferred
  /\ NLevels >= 2
  /\ \A i \in 1..NLevels : latent_levels[i].post = InitLevel(i - 1).post

\* C9: _output_error with a Bernoulli or Multinomial output always ends in
\* the not-implemented error, also before any generate call set the mean;
\* infer with 'error' in inference_input_form surfaces the same error and
\* runs no level's infer.
C9_NotImplemented ==
  output_dist.type \in {"Bernoulli", "Multinomial"} =>
    /\ last.op = "_output_error" => last.exc = "NotImplementedError"
    /\ (last.op = "infer" /\ "error" \in Range(inference_procedure)) =>
         (last.exc = "NotImplementedError" /\ last.calls = <<>>)

CanonicalOrder == <<"observation", "gradient", "error">>

\* C10: for every non-empty inference_input_form the encoding is the active
\* modes' components in the order observation, gradient, error, whatever the
\* order of the list; a single mode gives its component alone (for
\* ['observation'], observation - 0.5) and several give a tensor as wide as
\* the components together.
C10_EncodingForm ==
  (last.op = "_get_encoding_form" /\ inference_procedure # <<>>) =>
    /\ last.exc = NoExc
    /\ last.ret = _get_encoding_form(Self, SelectSeq(CanonicalOrder, LAMBDA x : x \in Range(inference_procedure)),
                                     last.observation).val
    /\ inference_procedure = <<"observation">> => last.ret = Centered(last.observation)
    /\ "observation" \in Range(inference_procedure) =>
         /\ Len(last.ret) >= Len(last.observation)
         /\ SubSeq(last.ret, 1, Len(last.observation)) = Centered(last.observation)
====
